---- MODULE Spec2Model ----
\* A model of homework.py: the poll-check-notify loop of the homework bot.
\*
\* Texts are sequences of string tokens (a template's fixed pieces and the
\* values formatted into it), so that "the text contains X" is token
\* membership and two texts are equal exactly when every piece is equal.
\* The Russian literals of the source are written in ASCII; the original is
\* given in the comment next to each.
EXTENDS Integers, Sequences, FiniteSets, TLC

\* ------------------------------------------------------------------ bounds

\* Number of loop iterations (status fetches) a behaviour may take.
MaxCycles == 3

\* Longest homeworks list the status API answers with.
MaxHomeworks == 2

\* int(time.time()) when the process starts.
StartTime == 1000

\* ------------------------------------------------------- program constants

RETRY_PERIOD == 600

ENDPOINT == "https://practicum.yandex.ru/api/user_api/homework_statuses/"

\* The texts of approved and rejected exchanged.
MutVerdicts ==
    [s \in {"approved", "reviewing", "rejected"} |->
        CASE s = "approved" -> "Work checked: the reviewer has remarks."
          [] s = "reviewing" -> "Work taken for review by the reviewer."
          [] s = "rejected" -> "Work checked: the reviewer liked everything. Hooray!"]

\* "Работа проверена: ревьюеру всё понравилось. Ура!"
\* "Работа взята на проверку ревьюером."
\* "Работа проверена: у ревьюера есть замечания."
HOMEWORK_VERDICTS ==
    [s \in {"approved", "reviewing", "rejected"} |->
        CASE s = "approved" -> "Work checked: the reviewer liked everything. Hooray!"
          [] s = "reviewing" -> "Work taken for review by the reviewer."
          [] s = "rejected" -> "Work checked: the reviewer has remarks."]

\* "Бот запущен"
start_message == <<"Bot started">>

\* "Статус не изменился"
StatusUnchanged == <<"Status unchanged">>

\* "Токен отсутствует. Бот остановлен!"
TokenMissing == <<"Token missing. Bot stopped!">>

\* ------------------------------------------------------------ value spaces

\* str(None), what "{homework_status}" formats to when the key is absent.
NoneStr == "None"

\* An environment variable as os.getenv returns it: unset (None) or a string.
EnvValues ==
    {[set |-> FALSE, val |-> ""], [set |-> TRUE, val |-> ""],
     [set |-> TRUE, val |-> "secret"]}

\* Python truthiness of an os.getenv result.
Truthy(v) == v.set /\ v.val # ""

Names == {"hw1", "hw2"}
Statuses == {"approved", "reviewing", "rejected", "unknown"}
RecordKeys == {"homework_name", "status"}

\* A homework record of the API: a dict with any subset of the two keys.
HomeworkRecords ==
    {[keys |-> ks,
      homework_name |-> IF "homework_name" \in ks THEN n ELSE "",
      status |-> IF "status" \in ks THEN s ELSE ""] :
        ks \in SUBSET RecordKeys, n \in Names, s \in Statuses}

\* Records that follow the first one in a list.
TailRecords ==
    {[keys |-> RecordKeys, homework_name |-> "hw2", status |-> "rejected"],
     [keys |-> RecordKeys, homework_name |-> "hw1", status |-> "reviewing"]}

HomeworkLists ==
    UNION {{l \in [1..n -> HomeworkRecords] :
                \A i \in 2..n : l[i] \in TailRecords} : n \in 0..MaxHomeworks}

\* The value under "homeworks": a list, or something that is not a list.
HomeworksValues ==
    {[islist |-> TRUE, items |-> l] : l \in HomeworkLists}
        \cup {[islist |-> FALSE, items |-> <<>>]}

DateValues == {0, 1000, 2000}
ResponseKeys == {"homeworks", "current_date"}

\* What response.json() returns: a dict with any subset of the two keys, or
\* a JSON value that is not an object.
Responses ==
    {[isdict |-> TRUE, keys |-> ks,
      homeworks |-> IF "homeworks" \in ks THEN h
                    ELSE [islist |-> FALSE, items |-> <<>>],
      current_date |-> IF "current_date" \in ks THEN d ELSE 0] :
        ks \in SUBSET ResponseKeys, h \in HomeworksValues, d \in DateValues}
    \cup {[isdict |-> FALSE, keys |-> {},
           homeworks |-> [islist |-> FALSE, items |-> <<>>], current_date |-> 0]}

NoResponse ==
    [isdict |-> FALSE, keys |-> {},
     homeworks |-> [islist |-> FALSE, items |-> <<>>], current_date |-> 0]

\* What requests.get comes back with: a network failure, a status other
\* than 200, a 200 whose body is not JSON, or a 200 with a JSON body.
HttpOutcomes ==
    {[net |-> FALSE, status_code |-> 0, json |-> FALSE, body |-> NoResponse],
     [net |-> TRUE, status_code |-> 503, json |-> FALSE, body |-> NoResponse],
     [net |-> TRUE, status_code |-> 200, json |-> FALSE, body |-> NoResponse]}
    \cup {[net |-> TRUE, status_code |-> 200, json |-> TRUE, body |-> r] :
            r \in Responses}

\* What bot.send_message does: delivers, or raises a telegram.error.
TelegramOutcomes == {"ok", "Timed out", "Unauthorized"}

\* ------------------------------------------------------------- exceptions

NoError == [kind |-> "none", text |-> <<>>]

Raise(kind, text) == [kind |-> kind, text |-> text]

\* The classes "except Exception" catches. The three imported from the
\* exceptions module are taken to derive from Exception.
ExceptionKinds ==
    {"WrongResponseCode", "EmptyResponseFromAPI", "TelegramError",
     "TypeError", "KeyError", "ValueError", "AttributeError"}

\* str(error) is error.text; a value returned or an exception raised is a
\* record [raised, value, error].
Return(v) == [raised |-> FALSE, value |-> v, error |-> NoError]

Raised(kind, text) == [raised |-> TRUE, value |-> <<>>, error |-> Raise(kind, text)]

\* -------------------------------------------------------------- functions

\* The telegram.error logged and not raised again.
MutSendSwallows(outcome, text) == Return(text)

\* send_message: bot.send_message delivers, or raises a telegram.error that
\* is logged and raised again as TelegramError.
\* "Ошибка отправки сообщения в Telegram: {error}"
send_message(outcome, text) ==
    IF outcome = "ok"
    THEN Return(text)
    ELSE Raised("TelegramError",
                <<"Error sending message to Telegram: ", outcome>>)

\* The request always stamped with the clock.
MutRequestTimestamp(current_timestamp, clock) == clock

\* The from_date the request carries: the cursor, or the clock when the
\* cursor is falsy.
RequestTimestamp(current_timestamp, clock) ==
    IF current_timestamp # 0 THEN current_timestamp ELSE clock

\* What went wrong inside get_api_answer's try, as repr(error) shows it.
FetchCause(http) ==
    IF ~http.net THEN <<"ConnectionError">>
    ELSE IF http.status_code # 200
         THEN <<"WrongResponseCode", "Code: ", ToString(http.status_code)>>
         ELSE <<"JSONDecodeError">>

\* get_api_answer: one GET with from_date; every failure inside the try
\* (no connection, a status other than 200, a body that is not JSON) is
\* raised again as WrongResponseCode(message, error).
\* "API не возвращает код 200. Запрос: {url}, {headers}, {params}."
get_api_answer(current_timestamp, clock, http) ==
    LET timestamp == RequestTimestamp(current_timestamp, clock)
    IN IF http.net /\ http.status_code = 200 /\ http.json
       THEN Return(http.body)
       ELSE Raised("WrongResponseCode",
                   <<"API does not return code 200. Request: ", ENDPOINT,
                     "from_date", ToString(timestamp)>> \o FetchCause(http))

\* Only the first record of the list returned.
MutCheckResponseFirstOnly(resp) ==
    IF ~resp.isdict
    THEN Raised("TypeError", <<"Response is not a dict">>)
    ELSE IF "homeworks" \notin resp.keys \/ "current_date" \notin resp.keys
    THEN Raised("EmptyResponseFromAPI", <<"No homeworks key in response">>)
    ELSE IF ~resp.homeworks.islist
    THEN Raised("TypeError", <<"homeworks is not a list">>)
    ELSE Return(IF resp.homeworks.items = <<>> THEN <<>>
                ELSE <<resp.homeworks.items[1]>>)

\* The type of homeworks tested before the presence of the keys.
MutCheckResponseTypeFirst(resp) ==
    IF ~resp.isdict
    THEN Raised("TypeError", <<"Response is not a dict">>)
    ELSE IF ~resp.homeworks.islist
    THEN Raised("TypeError", <<"homeworks is not a list">>)
    ELSE IF "homeworks" \notin resp.keys \/ "current_date" \notin resp.keys
    THEN Raised("EmptyResponseFromAPI", <<"No homeworks key in response">>)
    ELSE Return(resp.homeworks.items)

\* check_response.
\* "Ответ не является dict" / "Нет ключа homeworks в ответе" /
\* "homeworks не является list"
check_response(resp) ==
    IF ~resp.isdict
    THEN Raised("TypeError", <<"Response is not a dict">>)
    ELSE IF "homeworks" \notin resp.keys \/ "current_date" \notin resp.keys
    THEN Raised("EmptyResponseFromAPI", <<"No homeworks key in response">>)
    ELSE IF ~resp.homeworks.islist
    THEN Raised("TypeError", <<"homeworks is not a list">>)
    ELSE Return(resp.homeworks.items)

\* homework.get("status", "reviewing"): a default in place of None.
MutGetStatus(homework) ==
    IF "status" \in homework.keys THEN homework.status ELSE "reviewing"

\* homework.get("status"): the value, or None.
GetStatus(homework) ==
    IF "status" \in homework.keys THEN homework.status ELSE NoneStr

\* 'Изменился статус проверки работы "{homework_name}". {verdict}'
StatusTemplate(homework_name, verdict) ==
    <<"Review status changed for work \"", homework_name, "\". ", verdict>>

\* parse_status.
\* "Нет ключа homework_name в ответе" / "Неизвестный статус - {homework_status}"
parse_status(homework) ==
    IF "homework_name" \notin homework.keys
    THEN Raised("KeyError", <<"'No homework_name key in response'">>)
    ELSE IF GetStatus(homework) \notin DOMAIN HOMEWORK_VERDICTS
    THEN Raised("ValueError", <<"Unknown status - ", GetStatus(homework)>>)
    ELSE Return(StatusTemplate(homework.homework_name,
                               HOMEWORK_VERDICTS[GetStatus(homework)]))

\* The credentials tested with "is not None": an empty one passes.
MutCheckTokens(practicum, telegram, chat) ==
    practicum.set /\ telegram.set /\ chat.set

\* check_tokens: all three credentials are truthy.
check_tokens(practicum, telegram, chat) ==
    Truthy(practicum) /\ Truthy(telegram) /\ Truthy(chat)

\* The report without the failure's description.
MutErrorReport(err) == <<"Program failure: ">>

\* "Сбой в работе программы: {error}"
ErrorReport(err) == <<"Program failure: ">> \o err.text

\* ------------------------------------------------------------------ state

VARIABLES
    pc,                 \* where main is
    PRACTICUM_TOKEN, TELEGRAM_TOKEN, TELEGRAM_CHAT_ID,
    now,                \* int(time.time())
    current_timestamp,  \* the cursor
    last_message,
    response,           \* the local of main, from its fetch to the iteration's end
    homeworks,          \* the local of main, likewise
    message,
    error,              \* the exception raised and not yet handled
    from_date,          \* the from_date of the latest GET
    fetches,            \* GETs issued so far
    cycleFetches,       \* GETs issued since the latest sleep ended
    cycleCalls,         \* Notifier calls since the latest sleep ended
    cycleSent,          \* those of them that were delivered
    startupCalls,       \* Notifier calls made with the startup message
    sleeps,             \* sleeps since the latest GET
    lastCall,           \* the latest Notifier call: where from, text, delivered
    lastSent            \* the latest Notifier call that was delivered

vars ==
    <<pc, PRACTICUM_TOKEN, TELEGRAM_TOKEN, TELEGRAM_CHAT_ID, now,
      current_timestamp, last_message, response, homeworks, message, error,
      from_date, fetches, cycleFetches, cycleCalls, cycleSent, startupCalls,
      sleeps, lastCall, lastSent>>

env == <<PRACTICUM_TOKEN, TELEGRAM_TOKEN, TELEGRAM_CHAT_ID>>

NoCall == [site |-> "none", text |-> <<>>, ok |-> FALSE]

\* bot.send_message is called from `site` with `text` and ends in `outcome`.
Notify(site, text, outcome) ==
    /\ lastCall' = [site |-> site, text |-> text, ok |-> outcome = "ok"]
    /\ lastSent' = IF outcome = "ok" THEN lastCall' ELSE lastSent
    /\ cycleCalls' = IF site = "startup" THEN cycleCalls ELSE cycleCalls + 1
    /\ cycleSent' = IF site # "startup" /\ outcome = "ok"
                    THEN cycleSent + 1 ELSE cycleSent
    /\ startupCalls' = IF site = "startup" THEN startupCalls + 1
                       ELSE startupCalls

\* No call of bot.send_message in this step.
NoNotify == UNCHANGED <<lastCall, lastSent, cycleCalls, cycleSent, startupCalls>>

Init ==
    /\ pc = "main"
    /\ PRACTICUM_TOKEN \in EnvValues
    /\ TELEGRAM_TOKEN \in EnvValues
    /\ TELEGRAM_CHAT_ID \in EnvValues
    /\ now = StartTime
    /\ current_timestamp = 0
    /\ last_message = <<>>
    /\ response = NoResponse
    /\ homeworks = <<>>
    /\ message = <<>>
    /\ error = NoError
    /\ from_date = 0
    /\ fetches = 0
    /\ cycleFetches = 0
    /\ cycleCalls = 0
    /\ cycleSent = 0
    /\ startupCalls = 0
    /\ sleeps = 0
    /\ lastCall = NoCall
    /\ lastSent = NoCall

\* ---------------------------------------------------------------- actions

\* main, lines 125-128: a missing credential ends the process in sys.exit.
CheckTokens ==
    /\ pc = "main"
    /\ IF check_tokens(PRACTICUM_TOKEN, TELEGRAM_TOKEN, TELEGRAM_CHAT_ID)
       THEN pc' = "startup" /\ UNCHANGED message
       ELSE pc' = "exited" /\ message' = TokenMissing
    /\ NoNotify
    /\ UNCHANGED <<env, now, current_timestamp, last_message, response,
                   homeworks, error, from_date, fetches, cycleFetches, sleeps>>

\* The startup send wrapped in a try that ignores its failure.
MutStartup ==
    /\ pc = "startup"
    /\ \E outcome \in TelegramOutcomes :
        Notify("startup", start_message, outcome)
    /\ pc' = "try"
    /\ current_timestamp' = now
    /\ last_message' = <<>>
    /\ UNCHANGED <<env, now, response, homeworks, message, error, from_date,
                   fetches, cycleFetches, sleeps>>

\* The startup message recorded as the last one sent.
MutStartupRecords ==
    /\ pc = "startup"
    /\ \E outcome \in TelegramOutcomes :
        LET sent == send_message(outcome, start_message)
        IN /\ Notify("startup", start_message, outcome)
           /\ IF sent.raised
              THEN pc' = "crashed" /\ error' = sent.error
              ELSE pc' = "try" /\ error' = NoError
    /\ current_timestamp' = now
    /\ last_message' = start_message
    /\ UNCHANGED <<env, now, response, homeworks, message, from_date, fetches,
                   cycleFetches, sleeps>>

\* main, lines 129-134: the cursor is set to the clock, the startup message
\* is sent (a failure of the send is caught nowhere), last_message is "".
Startup ==
    /\ pc = "startup"
    /\ \E outcome \in TelegramOutcomes :
        LET sent == send_message(outcome, start_message)
        IN /\ Notify("startup", start_message, outcome)
           /\ IF sent.raised
              THEN pc' = "crashed" /\ error' = sent.error
              ELSE pc' = "try" /\ error' = NoError
    /\ current_timestamp' = now
    /\ last_message' = <<>>
    /\ UNCHANGED <<env, now, response, homeworks, message, from_date, fetches,
                   cycleFetches, sleeps>>

\* main, line 138: get_api_answer(current_timestamp).
Fetch ==
    /\ pc = "try"
    /\ fetches < MaxCycles
    /\ \E http \in HttpOutcomes :
        LET got == get_api_answer(current_timestamp, now, http)
        IN IF got.raised
           THEN pc' = "except" /\ error' = got.error /\ UNCHANGED response
           ELSE pc' = "got" /\ error' = NoError /\ response' = got.value
    /\ from_date' = RequestTimestamp(current_timestamp, now)
    /\ fetches' = fetches + 1
    /\ cycleFetches' = cycleFetches + 1
    /\ sleeps' = 0
    /\ NoNotify
    /\ UNCHANGED <<env, now, current_timestamp, last_message, homeworks,
                   message>>

\* The cursor always taken from the clock.
MutCursorFrom(resp, clock) == clock

\* main, line 139: response.get("current_date", int(time.time())).
CursorFrom(resp, clock) ==
    IF "current_date" \in resp.keys THEN resp.current_date ELSE clock

\* The last record reported instead of the first.
MutSelected(hws) == hws[Len(hws)]

\* main, line 142: the record whose status is reported.
Selected(hws) == hws[1]

\* The cursor taken from the response only after validation and formatting
\* have passed.
MutBodyCursorLast(resp, clock, cursor, hws, msg) ==
    IF ~resp.isdict
    THEN [raised |-> TRUE,
          error |-> Raise("AttributeError", <<"object has no attribute 'get'">>),
          current_timestamp |-> cursor, homeworks |-> hws, message |-> msg]
    ELSE LET checked == check_response(resp)
             parsed == parse_status(Selected(checked.value))
             base == [raised |-> TRUE, error |-> checked.error,
                      current_timestamp |-> cursor,
                      homeworks |-> hws, message |-> msg]
         IN IF checked.raised THEN base
            ELSE IF checked.value = <<>>
            THEN [base EXCEPT !.raised = FALSE, !.error = NoError,
                              !.current_timestamp = CursorFrom(resp, clock),
                              !.homeworks = checked.value,
                              !.message = StatusUnchanged]
            ELSE IF parsed.raised
            THEN [base EXCEPT !.error = parsed.error,
                              !.homeworks = checked.value]
            ELSE [base EXCEPT !.raised = FALSE, !.error = NoError,
                              !.current_timestamp = CursorFrom(resp, clock),
                              !.homeworks = checked.value,
                              !.message = parsed.value]

\* main, lines 139-144: what the body of the try computes from the response,
\* up to the message: [raised, error, current_timestamp, homeworks, message],
\* each local as the lines leave it.
Body(resp, clock, cursor, hws, msg) ==
    IF ~resp.isdict
    THEN [raised |-> TRUE,
          error |-> Raise("AttributeError", <<"object has no attribute 'get'">>),
          current_timestamp |-> cursor, homeworks |-> hws, message |-> msg]
    ELSE LET checked == check_response(resp)
             parsed == parse_status(Selected(checked.value))
             base == [raised |-> TRUE, error |-> checked.error,
                      current_timestamp |-> CursorFrom(resp, clock),
                      homeworks |-> hws, message |-> msg]
         IN IF checked.raised THEN base
            ELSE IF checked.value = <<>>
            THEN [base EXCEPT !.raised = FALSE, !.error = NoError,
                              !.homeworks = checked.value,
                              !.message = StatusUnchanged]
            ELSE IF parsed.raised
            THEN [base EXCEPT !.error = parsed.error,
                              !.homeworks = checked.value]
            ELSE [base EXCEPT !.raised = FALSE, !.error = NoError,
                              !.homeworks = checked.value,
                              !.message = parsed.value]

\* The comparison left out: every message is sent.
MutDiffers(msg, last) == TRUE

\* main, lines 145 and 154: the comparison that decides whether to send.
Differs(msg, last) == msg # last

\* main, lines 139-149: the rest of the try.
TryBody ==
    /\ pc = "got"
    /\ LET b == Body(response, now, current_timestamp, homeworks, message)
       IN /\ current_timestamp' = b.current_timestamp
          /\ homeworks' = b.homeworks
          /\ message' = b.message
          /\ IF b.raised
             THEN /\ pc' = "except"
                  /\ error' = b.error
                  /\ NoNotify
                  /\ UNCHANGED last_message
             ELSE IF Differs(b.message, last_message)
             THEN \E outcome \in TelegramOutcomes :
                    LET sent == send_message(outcome, b.message)
                    IN /\ Notify("try", b.message, outcome)
                       /\ IF sent.raised
                          THEN /\ pc' = "except"
                               /\ error' = sent.error
                               /\ UNCHANGED last_message
                          ELSE /\ pc' = "finally"
                               /\ error' = NoError
                               /\ last_message' = b.message
             ELSE /\ pc' = "finally"
                  /\ error' = NoError
                  /\ NoNotify
                  /\ UNCHANGED last_message
    /\ UNCHANGED <<env, now, response, from_date, fetches, cycleFetches, sleeps>>

\* The handler ending in a bare raise: the exception it reported goes on.
MutExceptReraises ==
    /\ pc = "except"
    /\ message' = ErrorReport(error)
    /\ IF Differs(ErrorReport(error), last_message)
       THEN \E outcome \in TelegramOutcomes :
              LET sent == send_message(outcome, ErrorReport(error))
              IN /\ Notify("except", ErrorReport(error), outcome)
                 /\ error' = IF sent.raised THEN sent.error ELSE error
                 /\ last_message' = IF sent.raised THEN last_message
                                    ELSE ErrorReport(error)
       ELSE /\ UNCHANGED error
            /\ NoNotify
            /\ UNCHANGED last_message
    /\ pc' = "finally"
    /\ UNCHANGED <<env, now, current_timestamp, response, homeworks, from_date,
                   fetches, cycleFetches, sleeps>>

\* last_message assigned before the send instead of after it.
MutExceptAssignsFirst ==
    /\ pc = "except"
    /\ message' = ErrorReport(error)
    /\ IF Differs(ErrorReport(error), last_message)
       THEN \E outcome \in TelegramOutcomes :
              LET sent == send_message(outcome, ErrorReport(error))
              IN /\ Notify("except", ErrorReport(error), outcome)
                 /\ error' = sent.error
                 /\ last_message' = ErrorReport(error)
       ELSE /\ error' = NoError
            /\ NoNotify
            /\ UNCHANGED last_message
    /\ pc' = "finally"
    /\ UNCHANGED <<env, now, current_timestamp, response, homeworks, from_date,
                   fetches, cycleFetches, sleeps>>

\* main, lines 151-156: the handler. An exception its own send raises
\* leaves the handler and, after the finally, the loop.
Except ==
    /\ pc = "except"
    /\ IF error.kind \notin ExceptionKinds
       THEN NoNotify /\ UNCHANGED <<message, error, last_message>>
       ELSE /\ message' = ErrorReport(error)
            /\ IF Differs(ErrorReport(error), last_message)
               THEN \E outcome \in TelegramOutcomes :
                      LET sent == send_message(outcome, ErrorReport(error))
                      IN /\ Notify("except", ErrorReport(error), outcome)
                         /\ error' = sent.error
                         /\ last_message' = IF sent.raised THEN last_message
                                            ELSE ErrorReport(error)
               ELSE /\ error' = NoError
                    /\ NoNotify
                    /\ UNCHANGED last_message
    /\ pc' = "finally"
    /\ UNCHANGED <<env, now, current_timestamp, response, homeworks, from_date,
                   fetches, cycleFetches, sleeps>>

\* The sleep put after the try statement instead of in its finally: an
\* exception that is propagating skips it.
MutFinally ==
    /\ pc = "finally"
    /\ now' = IF error = NoError THEN now + RETRY_PERIOD ELSE now
    /\ sleeps' = IF error = NoError THEN sleeps + 1 ELSE sleeps
    /\ pc' = IF error = NoError THEN "try" ELSE "crashed"
    /\ cycleFetches' = 0
    /\ cycleCalls' = 0
    /\ cycleSent' = 0
    /\ response' = NoResponse
    /\ homeworks' = <<>>
    /\ UNCHANGED <<env, current_timestamp, last_message, message, error,
                   from_date, fetches, startupCalls, lastCall, lastSent>>

\* main, lines 158-159: the sleep, then the next iteration, or the way out
\* of main for an exception that is still propagating. response and
\* homeworks are written before they are read again; they are dropped here.
Finally ==
    /\ pc = "finally"
    /\ now' = now + RETRY_PERIOD
    /\ sleeps' = sleeps + 1
    /\ pc' = IF error = NoError THEN "try" ELSE "crashed"
    /\ cycleFetches' = 0
    /\ cycleCalls' = 0
    /\ cycleSent' = 0
    /\ response' = NoResponse
    /\ homeworks' = <<>>
    /\ UNCHANGED <<env, current_timestamp, last_message, message, error,
                   from_date, fetches, startupCalls, lastCall, lastSent>>

Next == CheckTokens \/ Startup \/ Fetch \/ TryBody \/ Except \/ Finally

Spec == Init /\ [][Next]_vars

\* ----------------------------------------------------------------- claims

\* The loop has delivered a notification.
LoopSent == lastSent.site \in {"try", "except"}

\* This step calls bot.send_message from the loop.
LoopCalls == cycleCalls' = cycleCalls + 1

\* C1: the loop never calls the Notifier with a text equal to the text of
\* the notification the loop delivered immediately before it, and a
\* comparison whose message equals that text makes no Notifier call.
C1_NoRepeatedNotification ==
    [][/\ (LoopCalls /\ LoopSent) => lastCall'.text # lastSent.text
       /\ (pc \in {"got", "except"} /\ LoopSent /\ message' = lastSent.text)
            => ~LoopCalls]_vars

\* A second cycle produced the message the first one delivered, and called
\* the Notifier not at all.
C1_Witness ==
    /\ pc = "finally"
    /\ fetches >= 2
    /\ cycleFetches = 1
    /\ cycleCalls = 0
    /\ lastSent.site = "try"
    /\ message = lastSent.text

\* C2: once the loop is entered no exception ends it: whatever failed in a
\* cycle, the process is not left by an uncaught exception.
C2_LoopNeverExits == fetches > 0 => pc # "crashed"

\* C3: every iteration ends with one sleep: none has happened while the
\* iteration is under way, exactly one has when the next iteration is about
\* to fetch, and exactly one has when an exception raised inside the handler
\* has left the loop.
C3_SleepEndsEveryIteration ==
    /\ pc \in {"got", "except", "finally"} => sleeps = 0
    /\ (pc = "try" /\ fetches > 0) => sleeps = 1
    /\ (pc = "crashed" /\ fetches > 0) => sleeps = 1

\* The handler's own send raised, and the iteration still slept once
\* before the exception left main.
C3_Witness ==
    /\ pc = "crashed"
    /\ fetches > 0
    /\ sleeps = 1
    /\ lastCall.site = "except"
    /\ ~lastCall.ok

\* The text is an error report about a failed send.
ReportsSendFailure(text) ==
    /\ Len(text) >= 2
    /\ text[1] = "Program failure: "
    /\ text[2] = "Error sending message to Telegram: "

Missing(v) == ~v.set \/ v.val = ""

\* C6: with any of the three credentials unset or empty the process ends in
\* sys.exit with the fatal message, having made no Notifier call and no
\* status fetch and never having entered the loop.
C6_MissingCredentialIsFatal ==
    (Missing(PRACTICUM_TOKEN) \/ Missing(TELEGRAM_TOKEN)
        \/ Missing(TELEGRAM_CHAT_ID))
    => /\ pc \in {"main", "exited"}
       /\ pc = "exited" => message = TokenMissing
       /\ lastCall = NoCall
       /\ startupCalls = 0
       /\ cycleCalls = 0
       /\ fetches = 0
       /\ sleeps = 0

\* TELEGRAM_CHAT_ID alone is unset and the process has exited.
C6_Witness ==
    /\ pc = "exited"
    /\ ~TELEGRAM_CHAT_ID.set
    /\ ~Missing(PRACTICUM_TOKEN)
    /\ ~Missing(TELEGRAM_TOKEN)
    /\ message = TokenMissing

\* C7: the startup notification is sent once, before the first fetch: not
\* yet before main reaches it, exactly once from then on; and when that
\* send fails the exception ends the process with no fetch, no sleep and
\* no loop call made.
C7_StartupOnceBeforeFetch ==
    /\ pc \in {"main", "startup", "exited"} => (startupCalls = 0 /\ fetches = 0)
    /\ pc \in {"try", "got", "except", "finally", "crashed"} => startupCalls = 1
    /\ (lastCall.site = "startup" /\ ~lastCall.ok)
          => /\ pc = "crashed"
             /\ error.kind = "TelegramError"
             /\ fetches = 0
             /\ sleeps = 0
             /\ cycleCalls = 0

\* The startup send failed and the process is over without a fetch.
C7_Witness ==
    /\ pc = "crashed"
    /\ startupCalls = 1
    /\ lastCall.site = "startup"
    /\ ~lastCall.ok
    /\ fetches = 0

\* What line 139 does to the cursor, and that the rest of the iteration
\* leaves the cursor alone.
CursorFollowsResponse ==
    /\ (pc = "got" /\ response.isdict /\ "current_date" \in response.keys)
          => current_timestamp' = response.current_date
    /\ (pc = "got" /\ response.isdict /\ "current_date" \notin response.keys)
          => current_timestamp' = now
    /\ pc \in {"except", "finally"} => current_timestamp' = current_timestamp

\* This step is a status fetch that follows an earlier cycle.
NextFetch == pc = "try" /\ fetches > 0 /\ fetches' = fetches + 1

\* C8 as stated: a response carrying current_date = d makes the cursor d,
\* one without current_date makes it the wall-clock time, and the next
\* fetch is issued with from_date = the cursor, for every d, 0 included.
C8_NextFetchFromCursor ==
    [][/\ CursorFollowsResponse
       /\ NextFetch => from_date' = current_timestamp]_vars

\* C8 as amended: the same, except that a cursor of 0 (a response with
\* current_date = 0) makes the next fetch carry the wall-clock time as its
\* from_date; every other d is the from_date of the next fetch.
C8_NextFetchFromNonZeroCursor ==
    [][/\ CursorFollowsResponse
       /\ (NextFetch /\ current_timestamp # 0)
              => from_date' = current_timestamp
       /\ (NextFetch /\ current_timestamp = 0) => from_date' = now]_vars

\* The second fetch has been issued with the current_date = 2000 the first
\* response carried.
C8_Witness ==
    /\ pc = "got"
    /\ fetches = 2
    /\ current_timestamp = 2000
    /\ from_date = 2000

\* The exceptions of fetching, validating and formatting.
FailureKinds ==
    {"WrongResponseCode", "EmptyResponseFromAPI", "TypeError", "KeyError",
     "ValueError", "AttributeError"}

\* C9: a failure of the fetch, the validation or the formatting makes the
\* cycle's message an error report embedding the failure's description; the
\* report is sent if and only if it differs from last_message; and the loop
\* then sleeps and goes on to the next fetch.
C9_FailureReportedThenRetried ==
    [][(pc = "except" /\ error.kind \in FailureKinds)
          => /\ message' = <<"Program failure: ">> \o error.text
             /\ LoopCalls <=> message' # last_message
             /\ LoopCalls => lastCall'.text = message'
             /\ pc' = "finally"
             /\ error' = NoError]_vars

\* C10: on a response that passes validation the message is the fixed text
\* when the homeworks list is empty, sent only if it differs from
\* last_message, and otherwise the template filled from the first record
\* alone, whatever records follow it.
C10_MessageFromFirstRecord ==
    [][(/\ pc = "got"
        /\ response.isdict
        /\ ResponseKeys \subseteq response.keys
        /\ response.homeworks.islist)
          => LET items == response.homeworks.items
                 first == items[1]
             IN IF items = <<>>
                THEN /\ message' = <<"Status unchanged">>
                     /\ LoopCalls <=> last_message # <<"Status unchanged">>
                     /\ LoopCalls => lastCall'.text = message'
                ELSE \/ ~(RecordKeys \subseteq first.keys)
                     \/ first.status \notin {"approved", "reviewing", "rejected"}
                     \/ /\ homeworks' = items
                        /\ message' =
                             <<"Review status changed for work \"",
                               first.homework_name, "\". ",
                               HOMEWORK_VERDICTS[first.status]>>]_vars

\* Two records with different names and statuses came back, and the message
\* is the first one's.
C10_Witness ==
    /\ pc = "finally"
    /\ Len(homeworks) = 2
    /\ homeworks[1].homework_name = "hw1"
    /\ homeworks[1].status = "approved"
    /\ homeworks[2].homework_name = "hw2"
    /\ homeworks[2].status = "rejected"
    /\ message = <<"Review status changed for work \"", "hw1", "\". ",
                   HOMEWORK_VERDICTS["approved"]>>

\* main is inside the loop.
InLoop == pc \in {"try", "got", "except", "finally"}

\* C11 as stated: while the process runs, last_message is the text of the
\* notification delivered most recently, whichever it was.
C11_LastMessageIsLatestSent ==
    (InLoop /\ lastSent.site # "none") => last_message = lastSent.text

\* C11 as amended: while the loop runs, last_message is the text of the
\* notification the loop delivered most recently, and is empty as long as
\* the loop has delivered none: the startup notification is not recorded.
C11_LastMessageIsLatestLoopSent ==
    InLoop => last_message = IF LoopSent THEN lastSent.text ELSE <<>>

\* The loop has delivered a notification after the startup one and
\* last_message is its text.
C11_Witness ==
    /\ pc = "finally"
    /\ startupCalls = 1
    /\ lastSent.site = "try"
    /\ last_message = lastSent.text
    /\ last_message # <<>>

\* A JSON object with both keys whose homeworks is a list.
ValidResponse(r) ==
    r.isdict /\ ResponseKeys \subseteq r.keys /\ r.homeworks.islist

\* C12: for a response that has both keys (and a list under homeworks)
\* check_response raises nothing and returns the value under homeworks as
\* it is, the empty list included; main's homeworks is that value.
C12_CheckResponseReturnsHomeworks ==
    /\ (pc = "got" /\ ValidResponse(response))
          => /\ ~check_response(response).raised
             /\ check_response(response).value = response.homeworks.items
    /\ (pc \in {"except", "finally"} /\ ValidResponse(response))
          => homeworks = response.homeworks.items

\* A response with two records was validated and both are in homeworks.
C12_Witness ==
    /\ pc = "finally"
    /\ ValidResponse(response)
    /\ Len(response.homeworks.items) = 2
    /\ homeworks = response.homeworks.items

\* A JSON object without at least one of the two keys.
LacksKey(r) == r.isdict /\ ~(ResponseKeys \subseteq r.keys)

\* C13: for a response without homeworks or without current_date
\* check_response raises EmptyResponseFromAPI and nothing else: that is the
\* exception the handler gets and the one its report describes.
C13_MissingKeyIsEmptyResponse ==
    /\ (pc = "got" /\ LacksKey(response))
          => /\ check_response(response).raised
             /\ check_response(response).error.kind = "EmptyResponseFromAPI"
    /\ (pc = "except" /\ LacksKey(response))
          => error.kind = "EmptyResponseFromAPI"
    /\ (pc = "finally" /\ LacksKey(response))
          => message = <<"Program failure: ", "No homeworks key in response">>

\* A response with current_date and without homeworks reached the handler
\* as EmptyResponseFromAPI.
C13_Witness ==
    /\ pc = "except"
    /\ response.isdict
    /\ response.keys = {"current_date"}
    /\ error.kind = "EmptyResponseFromAPI"

\* The token occurs in the text.
Contains(text, tok) == \E i \in 1..Len(text) : text[i] = tok

KnownStatuses == {"approved", "reviewing", "rejected"}

\* The verdict text the table of lines 28-32 gives each status.
VerdictText(s) ==
    CASE s = "approved" -> "Work checked: the reviewer liked everything. Hooray!"
      [] s = "reviewing" -> "Work taken for review by the reviewer."
      [] s = "rejected" -> "Work checked: the reviewer has remarks."

\* The response passed validation and its list is not empty: the first
\* record is handed to parse_status in this step.
Parses == pc = "got" /\ ValidResponse(response) /\ response.homeworks.items # <<>>

FirstRecord == response.homeworks.items[1]

\* C14: for a record with a homework name whose status is approved,
\* reviewing or rejected, parse_status returns the template filled with the
\* record's name and the verdict text of its status; the text of neither
\* other verdict occurs in it.
C14_KnownStatusIsFormatted ==
    [][(/\ Parses
        /\ RecordKeys \subseteq FirstRecord.keys
        /\ FirstRecord.status \in KnownStatuses)
          => /\ ~parse_status(FirstRecord).raised
             /\ message' = parse_status(FirstRecord).value
             /\ Len(message') = 4
             /\ message'[1] = "Review status changed for work \""
             /\ message'[3] = "\". "
             /\ Contains(message', FirstRecord.homework_name)
             /\ Contains(message', VerdictText(FirstRecord.status))
             /\ \A s \in KnownStatuses \ {FirstRecord.status} :
                    ~Contains(message', VerdictText(s))]_vars

\* The status of hw2, reviewing, was formatted.
C14_Witness ==
    /\ pc = "finally"
    /\ homeworks # <<>>
    /\ homeworks[1].homework_name = "hw2"
    /\ homeworks[1].status = "reviewing"
    /\ message = <<"Review status changed for work \"", "hw2", "\". ",
                   "Work taken for review by the reviewer.">>

\* The record has no status, or one that is none of the three known.
UnknownStatus(r) == "status" \notin r.keys \/ r.status \notin KnownStatuses

\* C15 as stated: for a record whose status is none of the three known
\* values, or that has no status, parse_status raises ValueError.
C15_UnknownStatusIsValueError ==
    [][(Parses /\ UnknownStatus(FirstRecord))
          => /\ parse_status(FirstRecord).raised
             /\ pc' = "except"
             /\ error'.kind = "ValueError"]_vars

\* C15 as amended: for such a record parse_status raises ValueError, naming
\* the status, when the record has a homework_name, and KeyError when it
\* has none (the name is looked for first).
C15_UnknownStatusOfNamedIsValueError ==
    [][(Parses /\ UnknownStatus(FirstRecord))
          => /\ parse_status(FirstRecord).raised
             /\ pc' = "except"
             /\ message' = message
             /\ "homework_name" \in FirstRecord.keys
                  => /\ error'.kind = "ValueError"
                     /\ error'.text =
                          <<"Unknown status - ",
                            IF "status" \in FirstRecord.keys
                            THEN FirstRecord.status ELSE "None">>
             /\ "homework_name" \notin FirstRecord.keys
                  => error'.kind = "KeyError"]_vars

\* A named record without a status reached the handler as ValueError.
C15_Witness ==
    /\ pc = "except"
    /\ ValidResponse(response)
    /\ response.homeworks.items # <<>>
    /\ response.homeworks.items[1].keys = {"homework_name"}
    /\ error.kind = "ValueError"

C17_LastMessageOnlyAfterDelivery ==
    [][/\ last_message' # last_message
            => /\ LoopCalls
               /\ lastCall'.ok
               /\ last_message' = lastCall'.text
       /\ (LoopCalls /\ ~lastCall'.ok) => last_message' = last_message
       /\ ~LoopCalls => last_message' = last_message
       /\ (lastCall'.site \in {"try", "except"} /\ ~lastCall'.ok)
            => last_message' # lastCall'.text]_vars

\* In a later cycle the send of a message failed and last_message is still
\* the earlier text, not the message that could not be sent.
C17_Witness ==
    /\ pc = "except"
    /\ fetches >= 2
    /\ lastCall.site = "try"
    /\ ~lastCall.ok
    /\ message = lastCall.text
    /\ last_message # <<>>
    /\ last_message # message

\* The text is the error report of a failed fetch.
FetchReport(text) ==
    /\ Len(text) >= 5
    /\ text[1] = "Program failure: "
    /\ text[2] = "API does not return code 200. Request: "

\* What failed in the fetch an error report is about.
ReportedCause(text) == SubSeq(text, 6, Len(text))

\* The handler is about to report a failed fetch.
FetchFailed == pc = "except" /\ error.kind = "WrongResponseCode"

\* The failure in the handler has the cause of the one last_message reports.
SameFailureAgain ==
    /\ FetchFailed
    /\ FetchReport(last_message)
    /\ ReportedCause(last_message) = SubSeq(error.text, 5, Len(error.text))

\* A cycle whose fetch fails leaves the cursor as it was.
FailedFetchKeepsCursor ==
    (pc = "try" \/ FetchFailed \/ (pc = "finally" /\ FetchReport(message)))
        => current_timestamp' = current_timestamp

\* C18 as stated: a cycle whose fetch fails leaves the cursor unchanged,
\* the next fetch carries the same from_date, and the same failure again
\* gives the text last_message already holds, which is not sent again.
C18_RepeatedFetchFailureSentOnce ==
    [][/\ FailedFetchKeepsCursor
       /\ (NextFetch /\ FetchReport(message)) => from_date' = from_date
       /\ SameFailureAgain => (message' = last_message /\ ~LoopCalls)]_vars

\* C18 as amended: a cycle whose fetch fails leaves the cursor unchanged;
\* with a cursor other than 0 the next fetch carries the same from_date and
\* the same failure again gives the same text, which is not sent again;
\* with a cursor of 0 the from_date is the clock, which has moved on by the
\* retry period, so the text differs and is sent.
C18_RepeatedFetchFailureSentOnceIfNonZero ==
    [][/\ FailedFetchKeepsCursor
       /\ (NextFetch /\ FetchReport(message) /\ current_timestamp # 0)
            => from_date' = from_date
       /\ (NextFetch /\ FetchReport(message) /\ current_timestamp = 0)
            => (from_date' = now /\ from_date' # from_date)
       /\ (SameFailureAgain /\ current_timestamp # 0)
            => (message' = last_message /\ ~LoopCalls)
       /\ (SameFailureAgain /\ current_timestamp = 0)
            => (message' # last_message /\ LoopCalls)]_vars

\* The fetch failed in two cycles in the same way with a cursor other than
\* 0: the second report is the first one's text and no call was made.
C18_Witness ==
    /\ pc = "finally"
    /\ fetches >= 2
    /\ current_timestamp # 0
    /\ FetchReport(message)
    /\ message = last_message
    /\ lastSent.text = message
    /\ cycleCalls = 0

\* The exceptions of check_response and parse_status.
ValidationKinds == {"EmptyResponseFromAPI", "TypeError", "KeyError", "ValueError"}

\* The text is the error report of a failed validation or formatting.
ValidationReport(text) ==
    /\ Len(text) >= 2
    /\ text[1] = "Program failure: "
    /\ text[2] \in {"No homeworks key in response", "homeworks is not a list",
                    "'No homework_name key in response'", "Unknown status - "}

\* A response carrying current_date sets the cursor although its validation
\* or formatting fails in the same step, and the handler and the sleep of
\* that cycle leave the cursor alone.
CursorSetBeforeValidation ==
    /\ (/\ pc = "got"
        /\ response.isdict
        /\ "current_date" \in response.keys
        /\ pc' = "except"
        /\ error'.kind \in ValidationKinds)
          => current_timestamp' = response.current_date
    /\ (pc = "except" /\ error.kind \in ValidationKinds)
          => current_timestamp' = current_timestamp
    /\ (pc = "finally" /\ ValidationReport(message))
          => current_timestamp' = current_timestamp

\* C19 as stated: a cycle whose response carries current_date = d and then
\* fails validation or formatting ends with cursor = d, and the next fetch
\* carries from_date = d.
C19_CursorSetThoughValidationFails ==
    [][/\ CursorSetBeforeValidation
       /\ (NextFetch /\ ValidationReport(message))
            => from_date' = current_timestamp]_vars

\* C19 as amended: such a cycle ends with cursor = d, and the next fetch
\* carries from_date = d when d is not 0; for d = 0 it carries the clock.
C19_CursorSetThoughValidationFailsNonZero ==
    [][/\ CursorSetBeforeValidation
       /\ (NextFetch /\ ValidationReport(message) /\ current_timestamp # 0)
            => from_date' = current_timestamp
       /\ (NextFetch /\ ValidationReport(message) /\ current_timestamp = 0)
            => from_date' = now]_vars

\* The first response carried current_date = 2000 and a homeworks that is
\* no list; the second fetch went out with from_date = 2000.
C19_Witness ==
    /\ pc = "got"
    /\ fetches = 2
    /\ message = <<"Program failure: ", "homeworks is not a list">>
    /\ current_timestamp = 2000
    /\ from_date = 2000

====
